---- MODULE Spec2Model ----
(***************************************************************************)
(* A model of montecarlo.py: the BitString configuration class and the     *)
(* IsingHamiltonian exact-enumeration routines.                            *)
(*                                                                         *)
(* Python integers are unbounded, while TLC's are 32 bits wide, so the     *)
(* integer that set_int_config decodes and int() returns is kept as a pair *)
(* <<hi, lo>> standing for hi * 2^30 + lo with 0 <= lo < 2^30.             *)
(* Coupling strengths, fields and energies are integers here.              *)
(***************************************************************************)
EXTENDS Integers, Sequences, FiniteSets

VARIABLES
    bs,       \* the BitString under test: [N |-> length, config |-> array]
    other,    \* a second BitString, the right operand of ==
    call,     \* the last call made: <<method, argument>>
    pre,      \* bs.config as it was when the last call started
    outcome,  \* how the last call ended: "ok" or the exception raised
    ret,      \* the value the last call returned
    ham,      \* the IsingHamiltonian: [N, J, mu]
    pc,       \* position inside get_lowest_energy_config
    i,        \* its loop index
    emin,     \* its running minimum energy
    xmin,     \* its running minimiser index (None until first improvement)
    eprev     \* emin as it was before the last loop iteration

vars == <<bs, other, call, pre, outcome, ret, ham, pc, i, emin, xmin, eprev>>

bsVars == <<bs, other, call, pre, outcome, ret>>
gsVars == <<ham, pc, i, emin, xmin, eprev>>

\* Python's None, where an integer <<hi, lo>> is expected
None == <<>>

\* no position: the index is out of range
NoIndex == -1

(***************************************************************************)
(* Bounds of the model.                                                    *)
(***************************************************************************)
MaxN == 3        \* longest BitString of the lifecycle specification
MaxBits == 55    \* longest BitString of the integer round-trip specification
MaxSites == 2    \* most sites of an IsingHamiltonian
MaxEntries == 2  \* most (neighbour, strength) entries in all coupling lists

(***************************************************************************)
(* Unbounded integers as <<hi, lo>>.                                       *)
(***************************************************************************)
Base == 2^30

Big(n) == <<n \div Base, n % Base>>

BigZero == <<0, 0>>

BigIsNeg(a) == a[1] < 0

BigAdd(a, b) ==
    LET lo == a[2] + b[2]
    IN  IF lo >= Base THEN <<a[1] + b[1] + 1, lo - Base>>
        ELSE <<a[1] + b[1], lo>>

BigSub(a, b) ==
    LET lo == a[2] - b[2]
    IN  IF lo < 0 THEN <<a[1] - b[1] - 1, lo + Base>>
        ELSE <<a[1] - b[1], lo>>

BigGE(a, b) == a[1] > b[1] \/ (a[1] = b[1] /\ a[2] >= b[2])

\* 2**k for 0 <= k < 60
Pow2(k) == IF k < 30 THEN <<0, 2^k>> ELSE <<2^(k - 30), 0>>

(***************************************************************************)
(* math.log2(dec) >= k, for an integer dec > 0 and an integer k >= 0.      *)
(* math.log2 converts dec to a double (round to nearest, ties to even) and *)
(* returns the double nearest to its base-2 logarithm.  The doubles just   *)
(* below k are spaced 2^-47 apart for 32 < k <= 64, so the result is k     *)
(* itself, although dec < 2^k, once dec is within Log2Slack(k) of 2^k.     *)
(***************************************************************************)
Log2Slack(k) ==
    CASE k <= 48 -> 0
      [] k = 49  -> 1
      [] k = 50  -> 2
      [] k = 51  -> 5
      [] k = 52  -> 11
      [] k = 53  -> 22
      [] OTHER   -> 45 * 2^(k - 54)

Log2GE(dec, k) == BigGE(BigAdd(dec, Big(Log2Slack(k))), Pow2(k))

(***************************************************************************)
(* BitString                                                               *)
(***************************************************************************)
Bit == {0, 1}

\* __init__: N zeros
BitString(n) == [N |-> n, config |-> [x \in 0 .. n - 1 |-> 0]]

AllConfigs(n) == [0 .. n - 1 -> Bit]

\* len(array)
ArrayLen(c) == Cardinality(DOMAIN c)

\* The position array[idx] names in an array of the given length: numpy counts
\* a negative idx from the end. NoIndex: IndexError.
NpIndex(len, idx) ==
    IF 0 <= idx /\ idx < len THEN idx
    ELSE IF -len <= idx /\ idx < 0 THEN len + idx
    ELSE NoIndex

RECURSIVE CountEq(_, _, _)
\* for x in self.config: if x == v: count = count + 1   (from position x on)
CountEq(c, v, x) ==
    IF x >= ArrayLen(c) THEN 0
    ELSE (IF c[x] = v THEN 1 ELSE 0) + CountEq(c, v, x + 1)

on(b) == CountEq(b.config, 1, 0)

off(b) == CountEq(b.config, 0, 0)

\* a flip that toggles by counting up: 0 -> 1 -> 2
FlippedByIncrement(v) == v + 1

\* lines 73-76: the bit that replaces v
Flipped(v) == IF v = 1 THEN 0 ELSE 1

\* flip_site(i): the BitString after the call, and how the call ended
flip_site(b, idx) ==
    LET p == NpIndex(ArrayLen(b.config), idx)
    IN  IF p = NoIndex THEN [bs |-> b, outcome |-> "IndexError"]
        ELSE [bs |-> [b EXCEPT !.config[p] = Flipped(b.config[p])], outcome |-> "ok"]

RECURSIVE IntRange(_, _, _)
\* what the iterations x = lo .. hi - 1 of the loop of int() add to dec.
\* (The range is halved rather than walked, to keep TLC's evaluation shallow:
\* the additions are exact, so their order does not change the sum.)
IntRange(b, lo, hi) ==
    IF lo >= hi THEN BigZero
    ELSE IF hi = lo + 1
         THEN (IF b.config[lo] = 1 THEN Pow2(b.N - lo - 1) ELSE BigZero)
    ELSE LET m == (lo + hi) \div 2
         IN  BigAdd(IntRange(b, lo, m), IntRange(b, m, hi))

int(b) == IntRange(b, 0, b.N)

RECURSIVE SetConfigLoop(_, _, _, _)
\* the loop of set_config from position x on; s is a Python list (a sequence,
\* s[x] of the code is s[x + 1] here) and s[x] past its end raises IndexError
SetConfigLoop(n, c, s, x) ==
    IF x >= n THEN [config |-> c, outcome |-> "ok"]
    ELSE IF x >= Len(s) THEN [config |-> c, outcome |-> "IndexError"]
    ELSE SetConfigLoop(n, [c EXCEPT ![x] = s[x + 1]], s, x + 1)

set_config(b, s) ==
    LET r == SetConfigLoop(b.N, b.config, s, 0)
    IN  [bs |-> [b EXCEPT !.config = r.config], outcome |-> r.outcome]

\* one iteration of the loop of set_int_config, at position x. st holds dec,
\* other_bs.config and where the loop stands: "run", "break" or the exception
SetIntStep(n, x, st) ==
    IF st.dec = BigZero THEN [st EXCEPT !.outcome = "break"]
    ELSE IF st.dec = None THEN [st EXCEPT !.outcome = "TypeError"]
    ELSE IF BigIsNeg(st.dec) THEN [st EXCEPT !.outcome = "ValueError"]
    ELSE IF Log2GE(st.dec, n - x - 1)
         THEN [dec |-> BigSub(st.dec, Pow2(n - x - 1)),
               config |-> [st.config EXCEPT ![x] = 1],
               outcome |-> "run"]
         ELSE st

RECURSIVE SetIntRange(_, _, _, _)
\* the iterations x = lo .. hi - 1 of the loop, in order, from st.
\* (The range is halved rather than walked, to keep TLC's evaluation shallow.)
SetIntRange(n, lo, hi, st) ==
    IF lo >= hi \/ st.outcome # "run" THEN st
    ELSE IF hi = lo + 1 THEN SetIntStep(n, lo, st)
    ELSE LET m == (lo + hi) \div 2
         IN  SetIntRange(n, m, hi, SetIntRange(n, lo, m, st))

SetIntLoop(n, dec) ==
    SetIntRange(n, 0, n, [dec |-> dec, config |-> BitString(n).config, outcome |-> "run"])

\* set_int_config(dec): self.config is assigned only when the loop has ended
set_int_config(b, dec) ==
    LET r == SetIntLoop(b.N, dec)
    IN  IF r.outcome \in {"run", "break"}
        THEN [bs |-> [b EXCEPT !.config = r.config], outcome |-> "ok"]
        ELSE [bs |-> b, outcome |-> r.outcome]

RECURSIVE EqLoop(_, _, _)
\* the loop of __eq__ from position x on
EqLoop(a, b, x) ==
    IF x >= a.N THEN "True"
    ELSE IF x >= ArrayLen(b.config) THEN "IndexError"
    ELSE IF a.config[x] # b.config[x] THEN "False"
    ELSE EqLoop(a, b, x + 1)

\* a == b: "True", "False" or the exception raised
eq(a, b) == EqLoop(a, b, 0)

(***************************************************************************)
(* IsingHamiltonian                                                        *)
(***************************************************************************)
\* __init__: J[i] is the list of (neighbour, strength) pairs of site i (a
\* sequence: J[i][k] of the code is J[i][k + 1] here), mu[i] its field
IsingHamiltonian(J, mu) == [N |-> Cardinality(DOMAIN J), J |-> J, mu |-> mu]

\* an energy() that skips no entry
SkippedNever(j, s) == FALSE

\* line 181: the entry j of site s is passed over
Skipped(j, s) == j[1] < s

RECURSIVE PairLoop(_, _, _, _, _)
\* the double loop of energy() from site s, entry k of its list, on
PairLoop(h, c, s, k, e) ==
    IF s >= h.N THEN e
    ELSE IF k > Len(h.J[s]) THEN PairLoop(h, c, s + 1, 1, e)
    ELSE LET j == h.J[s][k]
         IN  IF Skipped(j, s) THEN PairLoop(h, c, s, k + 1, e)
             ELSE IF c[s] = c[j[1]] THEN PairLoop(h, c, s, k + 1, e + j[2])
             ELSE PairLoop(h, c, s, k + 1, e - j[2])

RECURSIVE Dot(_, _, _)
\* np.dot(self.mu, 2 * config.config - 1), from position x on
Dot(mu, c, x) ==
    IF x >= ArrayLen(c) THEN 0
    ELSE mu[x] * (2 * c[x] - 1) + Dot(mu, c, x + 1)

\* energy(config): error() is not defined, so the dimension check raises NameError
energy(h, b) ==
    IF ArrayLen(b.config) # Cardinality(DOMAIN h.J)
    THEN [outcome |-> "NameError", e |-> 0]
    ELSE [outcome |-> "ok", e |-> PairLoop(h, b.config, 0, 1, 0) + Dot(h.mu, b.config, 0)]

(***************************************************************************)
(* The lifecycle of one BitString: construction, then any calls.           *)
(***************************************************************************)
RECURSIVE SeqsUpTo(_, _)
\* the sequences over S of length at most n
SeqsUpTo(S, n) ==
    IF n = 0 THEN {<<>>}
    ELSE LET shorter == SeqsUpTo(S, n - 1)
         IN  shorter \cup {Append(s, v) : s \in {t \in shorter : Len(t) = n - 1}, v \in S}

NoHam == [N |-> 0, J |-> <<>>, mu |-> <<>>]

GsIdle ==
    /\ ham = NoHam
    /\ pc = "idle"
    /\ i = 0
    /\ emin = 0
    /\ xmin = None
    /\ eprev = 0

Init ==
    /\ \E n \in 1 .. MaxN : bs = BitString(n)
    /\ other = BitString(1)
    /\ call = <<"BitString", bs.N>>
    /\ pre = bs.config
    /\ outcome = "ok"
    /\ ret = None
    /\ GsIdle

Called(method, arg, r, value) ==
    /\ call' = <<method, arg>>
    /\ pre' = bs.config
    /\ bs' = r.bs
    /\ outcome' = r.outcome
    /\ ret' = value
    /\ UNCHANGED <<other, gsVars>>

CallFlipSite ==
    \E idx \in -(MaxN + 1) .. MaxN :
        Called("flip_site", idx, flip_site(bs, idx), None)

CallSetConfig ==
    \E s \in SeqsUpTo(Bit, MaxN + 1) :
        Called("set_config", s, set_config(bs, s), None)

CallSetIntConfig ==
    \E d \in -2 .. 2^(MaxN + 1) :
        Called("set_int_config", Big(d), set_int_config(bs, Big(d)), None)

CallInt ==
    Called("int", None, [bs |-> bs, outcome |-> "ok"], int(bs))

Next == CallFlipSite \/ CallSetConfig \/ CallSetIntConfig \/ CallInt

Spec == Init /\ [][Next]_vars

(***************************************************************************)
(* from_integer(d) then to_integer(), for lengths up to MaxBits and the    *)
(* integers d within 2 of a power of two.                                  *)
(***************************************************************************)
NearPowers(n) ==
    {d \in {BigSub(Pow2(k), Big(r)) : k \in 0 .. n, r \in 0 .. 2} :
        ~BigIsNeg(d) /\ ~BigGE(d, Pow2(n))}

InitInt ==
    /\ \E n \in 1 .. MaxBits, v \in Bit : bs = [N |-> n, config |-> [x \in 0 .. n - 1 |-> v]]
    /\ other = BitString(1)
    /\ call = <<"BitString", bs.N>>
    /\ pre = bs.config
    /\ outcome = "ok"
    /\ ret = None
    /\ GsIdle

FromInteger ==
    /\ call[1] = "BitString"
    /\ \E d \in NearPowers(bs.N) :
           Called("set_int_config", d, set_int_config(bs, d), None)

\* to_integer() after a from_integer(d) that returned
ToInteger ==
    /\ call[1] = "set_int_config"
    /\ outcome = "ok"
    /\ Called("int", call[2], [bs |-> bs, outcome |-> "ok"], int(bs))

NextInt == FromInteger \/ ToInteger

SpecInt == InitInt /\ [][NextInt]_vars

(***************************************************************************)
(* a == b and b == a for two BitStrings of any lengths and contents.       *)
(***************************************************************************)
AllBitStrings ==
    UNION {{[N |-> n, config |-> c] : c \in AllConfigs(n)} : n \in 1 .. MaxN}

InitEq ==
    /\ bs \in AllBitStrings
    /\ other \in AllBitStrings
    /\ call = <<"BitString", bs.N>>
    /\ pre = bs.config
    /\ outcome = "ok"
    /\ ret = None
    /\ GsIdle

\* bs == other
EqCall ==
    /\ call[1] = "BitString"
    /\ call' = <<"eq", "bs == other">>
    /\ ret' = eq(bs, other)
    /\ outcome' = IF ret' = "IndexError" THEN "IndexError" ELSE "ok"
    /\ UNCHANGED <<bs, other, pre, gsVars>>

\* other == bs
EqSwapped ==
    /\ call[1] = "BitString"
    /\ call' = <<"eq", "other == bs">>
    /\ ret' = eq(other, bs)
    /\ outcome' = IF ret' = "IndexError" THEN "IndexError" ELSE "ok"
    /\ UNCHANGED <<bs, other, pre, gsVars>>

NextEq == EqCall \/ EqSwapped

SpecEq == InitEq /\ [][NextEq]_vars

(***************************************************************************)
(* Hamiltonians: up to MaxSites sites, up to MaxEntries coupling entries   *)
(* in all, every neighbour a site, any order within a list, the same entry *)
(* twice, a site coupled to itself, one direction or both.                 *)
(***************************************************************************)
Strengths == {-1, 1, 2}

Fields == {-1, 0, 1}

\* the entries as the caller appends them: <<site, neighbour, strength>>
Appends(n) ==
    {f \in SeqsUpTo((0 .. n - 1) \X (0 .. n - 1) \X Strengths, MaxEntries) :
        \A k \in 1 .. Len(f) - 1 : f[k][1] <= f[k + 1][1]}

RECURSIVE ListOf(_, _)
\* J[s] after the appends of f: the entries of site s, in order
ListOf(f, s) ==
    IF f = <<>> THEN <<>>
    ELSE IF Head(f)[1] = s THEN <<(<<Head(f)[2], Head(f)[3]>>)>> \o ListOf(Tail(f), s)
    ELSE ListOf(Tail(f), s)

InitIsing ==
    /\ \E n \in 1 .. MaxSites :
           \E f \in Appends(n), mu \in [0 .. n - 1 -> Fields] :
               ham = IsingHamiltonian([s \in 0 .. n - 1 |-> ListOf(f, s)], mu)
    /\ bs = BitString(ham.N)
    /\ other = BitString(1)
    /\ call = <<"IsingHamiltonian", ham.N>>
    /\ pre = bs.config
    /\ outcome = "ok"
    /\ ret = None
    /\ pc = "idle"
    /\ i = 0
    /\ emin = 0
    /\ xmin = None
    /\ eprev = 0

(***************************************************************************)
(* energy(config) of every configuration of the model's length, and of one *)
(* that is a site longer.                                                  *)
(***************************************************************************)
CallEnergy ==
    /\ call[1] = "IsingHamiltonian"
    /\ \E b \in {[N |-> ham.N, config |-> c] : c \in AllConfigs(ham.N)}
                 \cup {BitString(ham.N + 1)} :
           LET r == energy(ham, b)
           IN  /\ bs' = b
               /\ pre' = b.config
               /\ call' = <<"energy", b.N>>
               /\ outcome' = r.outcome
               /\ ret' = IF r.outcome = "ok" THEN <<r.e>> ELSE None
    /\ UNCHANGED <<other, gsVars>>

NextEnergy == CallEnergy

SpecEnergy == InitIsing /\ [][NextEnergy]_vars

(***************************************************************************)
(* get_lowest_energy_config(), one loop iteration per step. bs is my_bs.   *)
(***************************************************************************)
\* lines 257-262: up to the loop
GsStart ==
    /\ pc = "idle"
    /\ LET r == set_int_config(BitString(ham.N), Big(0))
       IN  /\ bs' = r.bs
           /\ emin' = energy(ham, r.bs).e
           /\ eprev' = energy(ham, r.bs).e
    /\ xmin' = None
    /\ i' = 0
    /\ pc' = "loop"
    /\ call' = <<"get_lowest_energy_config", ham.N>>
    /\ UNCHANGED <<other, pre, outcome, ret, ham>>

\* lines 263-270: one iteration
GsStep ==
    /\ pc = "loop"
    /\ i < 2^bs.N
    /\ LET r == set_int_config(bs, Big(i))
           ecurrent == energy(ham, r.bs).e
       IN  /\ bs' = r.bs
           /\ IF ecurrent < emin
              THEN emin' = ecurrent /\ xmin' = Big(i)
              ELSE UNCHANGED <<emin, xmin>>
    /\ eprev' = emin
    /\ i' = i + 1
    /\ UNCHANGED <<other, call, pre, outcome, ret, ham, pc>>

\* lines 271-272: after the loop
GsReturn ==
    /\ pc = "loop"
    /\ i = 2^bs.N
    /\ LET r == set_int_config(bs, xmin)
       IN  /\ bs' = r.bs
           /\ outcome' = r.outcome
           /\ ret' = IF r.outcome = "ok" THEN <<emin, r.bs.config>> ELSE None
    /\ pc' = "done"
    /\ UNCHANGED <<other, call, pre, ham, i, emin, xmin, eprev>>

NextGs == GsStart \/ GsStep \/ GsReturn

SpecGs == InitIsing /\ [][NextGs]_vars

(***************************************************************************)
(* The claims.                                                             *)
(***************************************************************************)
\* bit k (k = 0 the least significant) of the integer d >= 0
BigBit(d, k) ==
    IF k < 30 THEN (d[2] \div 2^k) % 2 ELSE (d[1] \div 2^(k - 30)) % 2

\* C1: for every length N and every d with 0 <= d < 2^N, from_integer(d)
\* returns, leaves bit N-1-x of d at position x (position 0 the most
\* significant), and to_integer() then returns exactly d.
C1_RoundTrip ==
    /\ call[1] = "set_int_config" =>
           /\ outcome = "ok"
           /\ \A x \in 0 .. bs.N - 1 : bs.config[x] = BigBit(call[2], bs.N - 1 - x)
    /\ call[1] = "int" => ret = call[2]

RECURSIVE SumOver(_, _)
\* the sum of f[x] over x in S
SumOver(f, S) ==
    IF S = {} THEN 0
    ELSE LET x == CHOOSE y \in S : TRUE
         IN  f[x] + SumOver(f, S \ {x})

\* energy(c) of every configuration c of the model's length
Energies(h) ==
    [c \in AllConfigs(h.N) |-> energy(h, [N |-> h.N, config |-> c]).e]

MinEnergy(h) ==
    CHOOSE e \in {Energies(h)[c] : c \in AllConfigs(h.N)} :
        \A c \in AllConfigs(h.N) : e <= Energies(h)[c]

\* C2: get_lowest_energy_config() returns (emin, bits) with emin the least
\* energy of all 2^N configurations and bits a configuration of that energy,
\* also when the all-zero configuration is a minimiser.
C2_ReturnsMinimum ==
    pc = "done" =>
        /\ outcome = "ok"
        /\ ret[1] = MinEnergy(ham)
        /\ ret[2] \in AllConfigs(ham.N)
        /\ Energies(ham)[ret[2]] = ret[1]

\* the listed entries <<site, k>> whose neighbour is not below the site
CountedEntries(h) ==
    {sk \in (0 .. h.N - 1) \X (1 .. MaxEntries) :
        sk[2] <= Len(h.J[sk[1]]) /\ h.J[sk[1]][sk[2]][1] >= sk[1]}

\* C3: energy(config) is the sum, over every listed entry (j, J) of every
\* site s with j >= s, of +J when bits s and j are equal and -J when they
\* differ, plus the sum over the sites of mu_s * (2 * bit_s - 1).
C3_EnergyFormula ==
    (call[1] = "energy" /\ outcome = "ok") =>
        LET c == bs.config
            pair == [sk \in CountedEntries(ham) |->
                        LET j == ham.J[sk[1]][sk[2]]
                        IN  IF c[sk[1]] = c[j[1]] THEN j[2] ELSE -j[2]]
            field == [s \in 0 .. ham.N - 1 |-> ham.mu[s] * (2 * c[s] - 1)]
        IN  ret[1] = SumOver(pair, CountedEntries(ham)) + SumOver(field, 0 .. ham.N - 1)

\* C3's case: the coupling 0-1 listed at both ends (counted once, at site 0),
\* a nonzero field, and bits that differ
C3_Witness ==
    /\ call[1] = "energy"
    /\ outcome = "ok"
    /\ ham.N = 2
    /\ ham.J[0] = <<(<<1, 2>>)>>
    /\ ham.J[1] = <<(<<0, 2>>)>>
    /\ ham.mu[0] = 1
    /\ ham.mu[1] = 0
    /\ bs.config[0] = 1
    /\ bs.config[1] = 0
    /\ ret = <<-1>>

\* C5: the bit sequence has length N, every entry is 0 or 1, and
\* count_on() + count_off() = N, after any calls.
C5_LengthAndBits ==
    /\ DOMAIN bs.config = 0 .. bs.N - 1
    /\ \A x \in DOMAIN bs.config : bs.config[x] \in Bit
    /\ on(bs) + off(bs) = bs.N

\* C5's case: a flip has left two bits of three on and one off
C5_Witness ==
    /\ call[1] = "flip_site"
    /\ outcome = "ok"
    /\ bs.N = 3
    /\ on(bs) = 2
    /\ off(bs) = 1

\* C6: a == b is true if and only if the two have the same length and the
\* same bit at every position (and false otherwise).
C6_EqualsIffSame ==
    call[1] = "eq" =>
        ret = IF bs.N = other.N /\ bs.config = other.config THEN "True" ELSE "False"

\* C7: flip(i) toggles bit i and no other when 0 <= i < N, and otherwise
\* fails with an index error and changes nothing.
C7_FlipOrFail ==
    call[1] = "flip_site" =>
        IF 0 <= call[2] /\ call[2] < bs.N
        THEN outcome = "ok" /\ bs.config = [pre EXCEPT ![call[2]] = 1 - pre[call[2]]]
        ELSE outcome = "IndexError" /\ bs.config = pre

\* C8: from_integer(d) fails for every d < 0 and every d >= 2^N, and then
\* leaves the bits as they were.
C8_RejectsOutOfRange ==
    (call[1] = "set_int_config" /\ (BigIsNeg(call[2]) \/ BigGE(call[2], Pow2(bs.N)))) =>
        outcome # "ok" /\ bs.config = pre

\* C9: set_bits(s) copies s position by position when len(s) = N, and
\* otherwise fails and changes no bit.
C9_CopyOrFail ==
    call[1] = "set_config" =>
        IF Len(call[2]) = bs.N
        THEN outcome = "ok" /\ \A x \in 0 .. bs.N - 1 : bs.config[x] = call[2][x + 1]
        ELSE outcome # "ok" /\ bs.config = pre

\* the least index whose configuration has the least energy
LowestMinimiser(h) ==
    CHOOSE d \in 0 .. 2^h.N - 1 :
        /\ energy(h, set_int_config(BitString(h.N), Big(d)).bs).e = MinEnergy(h)
        /\ \A k \in 0 .. d - 1 :
               energy(h, set_int_config(BitString(h.N), Big(k)).bs).e > MinEnergy(h)

\* the configurations of least energy
Minimisers(h) == {c \in AllConfigs(h.N) : Energies(h)[c] = MinEnergy(h)}

\* C10: emin never increases during the loop, the tracked index changes only
\* with a strict improvement, and when several configurations share the
\* minimal energy the one returned is the one of lowest index among them.
C10_LowestIndexReturned ==
    /\ emin <= eprev
    /\ (i > 0 /\ xmin = Big(i - 1)) => emin < eprev
    /\ (pc = "done" /\ Cardinality(Minimisers(ham)) > 1) =>
           /\ outcome = "ok"
           /\ ret[2] \in Minimisers(ham)
           /\ int(bs) = Big(LowestMinimiser(ham))

====
